---- MODULE Spec2Model ----
(***************************************************************************)
(* The asynchronous sentiment-analysis pipeline: the API publishes job     *)
(* envelopes to a durable RabbitMQ queue, competing SentimentWorker        *)
(* processes consume them one at a time, look the job up in MongoDB, run   *)
(* the classifier, store the result and acknowledge.                       *)
(*                                                                         *)
(* One action per externally visible step of process_message               *)
(* (src/worker/main.py): every broker call (ack, nack) and every store     *)
(* call (find_one, insert_one, update_one) is one atomic step, so that     *)
(* competing workers, crashes and lost connections interleave between      *)
(* them exactly where they can in the program.  Scores are in tenths       *)
(* (0.5 is 5).                                                             *)
(***************************************************************************)
EXTENDS Integers, Sequences, FiniteSets, TLC

\* ------------------------------------------------------------- bounds
Workers == {"w1", "w2"}
JobIds == {"j1", "j2"}
\* The job ids in the order the API hands them out.
JobOrder == <<"j1", "j2">>
\* Bodies put on the queue by a publisher other than the API.
ForeignBodies == {"g1"}
\* Injected failures over the whole run: a store operation that raises, a
\* broker connection dropped under a running worker, a worker killed or
\* interrupted.
MaxFailures == 2
\* Connection attempts and broker operations that fail while producers
\* publish and workers start.
MaxRefusals == 5
\* Deliveries of bodies that are no envelope a worker fails before the
\* run is cut off.
MaxRedeliveries == 3
\* The counters of a worker (metrics, and the callbacks it has run) are
\* followed up to this value and stay there.
MaxCount == 6
\* The longest request text tried against the endpoints.
MaxTextLen == 1001
\* The largest model output, in tenths and in absolute value, tried
\* against the classifier.
MaxRawScore == 30

\* ------------------------------------------------- program constants
\* basic_qos(prefetch_count=1)
prefetch_count == 1
\* "positive" if score >= 0.5
Threshold == 5
\* return "neutral", 0.5
FallbackScore == 5
\* score: float = Field(..., ge=0.0, le=1.0)
ScoreMin == 0
ScoreMax == 10
\* What self.model.predict can return for a model file loaded from
\* MODEL_PATH: any float, here one below the threshold and one above 1.0
\* (a model whose output layer is not a sigmoid).
ModelOutputs == {4, 12}
\* text: str = Field(..., min_length=1, max_length=1000)
min_length == 1
max_length == 1000
\* request.text[:100]
preview_length == 100
Sentiments == {"positive", "negative", "neutral"}

NoMsg == [fmt |-> "none"]
NoDoc == [job_id |-> "none"]
\* self.metrics as __init__ sets it; "t0" is the time.time() of that moment.
ZeroMetrics ==
    [total_processed |-> 0, total_failed |-> 0, total_duplicates |-> 0, start_time |-> "t0"]
ZeroTally == [handled |-> 0, nacks |-> 0, dups |-> 0]

VARIABLES
    queue,          \* sentiment_analysis_queue: messages ready for delivery
    dlq,            \* sentiment_analysis_queue_dlq
    unacked,        \* per worker channel: messages delivered and not yet acked/nacked
    chanOpen,       \* per worker: the broker still holds the worker's connection
    store,          \* the sentiment_results collection, in insertion order
    uniqueIndex,    \* the collection has the unique index on job_id
    pc,             \* per worker: position inside process_message
    cur,            \* per worker: the message process_message is handling
    result,         \* per worker: the result document built by process_message
    metrics,        \* per worker: self.metrics
    published,      \* job ids the API has handed out (uuid4: never twice)
    foreign,        \* bodies published by somebody else so far
    failures,       \* failures injected so far
    ackedProcessed, \* history: job ids acknowledged on the processed path
    crashedAfterSave, \* history: job ids whose writer was killed between save and ack
    late,           \* history, per worker: a record for cur's job existed at delivery
    redelivered,    \* history, per worker: cur's job was in crashedAfterSave at delivery
    attempts,       \* history, per job id: deliveries rejected with requeue so far
    raced,          \* history: job ids two workers took past the duplicate check at once
    tally,          \* history, per worker process: deliveries its callback ended, basic_nack calls, duplicates found
    topology,       \* the broker's exchanges, queues and bindings
    declErrors,     \* history: a declaration was refused by the broker
    call,           \* per job id: the publish_message call that carries its envelope
    setup,          \* per worker: position inside __init__ / setup_rabbitmq / start
    refusals,       \* connection attempts and broker operations failed so far
    request,        \* the HTTP request an endpoint of the API is given
    answer,         \* the endpoint's answer to it
    predictions,    \* classifier calls made for the request
    report,         \* per worker: what its last get_metrics call returned
    sample,         \* a call of the worker's ModelService.predict: what the model does with the text
    verdict         \* what that call returned

brokerVars == <<queue, dlq, unacked, chanOpen>>
storeVars == <<store, uniqueIndex>>
workerVars == <<pc, cur, result, metrics>>
envVars == <<published, foreign, failures>>
histVars == <<ackedProcessed, crashedAfterSave, late, redelivered, attempts, raced, tally>>
setupVars == <<topology, declErrors, call, setup, refusals>>
apiVars == <<request, answer, predictions>>
unitVars == <<report, sample, verdict>>
vars == <<brokerVars, storeVars, workerVars, envVars, histVars, setupVars, apiVars, unitVars>>

\* self.metrics before __init__ sets it.
NoMetrics == [start_time |-> "none"]
NoReport == [worker_id |-> "none"]
NoSample == [raised |-> FALSE, raw |-> 0, called |-> FALSE]
NoVerdict == [sentiment |-> "none", score |-> 0]

NoRequest == [endpoint |-> "none", text |-> <<>>]
NoAnswer == [status |-> 0, text |-> <<>>, sentiment |-> "none", score |-> 0, job_id |-> "none"]

\* ------------------------------------------------------ wire format
\* json.dumps(message): the body on the wire is JSON text of the envelope.
JsonDumps(message) == [fmt |-> "json", obj |-> message]

\* json.loads(body): the value, or the exception it raises.  Text that is
\* not JSON gives JSONDecodeError; bytes that are not UTF-8 text give
\* UnicodeDecodeError, which is a ValueError and no JSONDecodeError; JSON
\* text of an array parses to a list.
JsonLoads(body) ==
    CASE body.fmt = "json" -> [ok |-> TRUE, obj |-> body.obj, error |-> "none"]
      [] body.fmt = "json_array" -> [ok |-> TRUE, obj |-> NoDoc, error |-> "none"]
      [] body.fmt = "bytes" -> [ok |-> FALSE, obj |-> NoDoc, error |-> "UnicodeDecodeError"]
      [] OTHER -> [ok |-> FALSE, obj |-> NoDoc, error |-> "JSONDecodeError"]

\* The text a caller submits with job j, and the time of the submission.
RequestText(j) == <<"text", j>>
SubmittedAt(j) == <<"time", j>>

\* The message payload built by analyze_sentiment_async.
Message(job_id, text, timestamp) ==
    [job_id |-> job_id, text |-> text, timestamp |-> timestamp, status |-> "submitted"]

Envelope(j) == Message(j, RequestText(j), SubmittedAt(j))

\* A body that is not JSON text; n tells two such bodies apart.
Garbage(n) == [fmt |-> "garbage", n |-> n]

\* JSON text of an array, and bytes that are no UTF-8 text.
JsonArray(n) == [fmt |-> "json_array", n |-> n]
RawBytes(n) == [fmt |-> "bytes", n |-> n]

InjectFailure ==
    /\ failures < MaxFailures
    /\ failures' = failures + 1

IsJob(m) == m.fmt = "json"
JobOf(m) == JsonLoads(m).obj.job_id

\* ------------------------------------------------------------ store
\* collection.find_one({"job_id": j}) finds a document.
HasRecord(s, j) == \E i \in 1..Len(s) : s[i].job_id = j

NumRecords(s, j) == Cardinality({i \in 1..Len(s) : s[i].job_id = j})

FirstIndex(s, j) == CHOOSE i \in 1..Len(s) : s[i].job_id = j /\ \A k \in 1..(i - 1) : s[k].job_id # j

\* create_index("job_id", unique=True) succeeds only on a collection
\* without two documents of one job_id.
NoDuplicateJobIds(s) == \A i, k \in 1..Len(s) : s[i].job_id = s[k].job_id => i = k

\* insert_one gives a document without _id a new ObjectId, one no stored
\* document has (documents are never deleted, so the next position is new).
NewObjectId(s) == Len(s) + 1

\* The document found by update_one's filter {"job_id": j} carries another
\* _id than the one insert_one put into the result dict before it failed:
\* "$set" of the whole dict would change the immutable _id, a WriteError.
UpdateOutcome(s, doc) ==
    IF ~HasRecord(s, doc.job_id) THEN "nomatch"
    ELSE IF s[FirstIndex(s, doc.job_id)].oid # doc.oid THEN "WriteError"
    ELSE "ok"

\* insert_one(result) against the collection: DuplicateKeyError when the
\* unique index exists and the job_id is already stored.
InsertOutcome(s, idx, doc) ==
    IF idx /\ HasRecord(s, doc.job_id) THEN "DuplicateKeyError" ELSE "ok"

C27_LookupMisses(s, j, raised) == FALSE

C31_ReplacesCollection(s, doc) == <<doc>>

\* The collection after a successful insert_one(doc): what it held, and
\* the new document.
InsertInto(s, doc) == Append(s, doc)

\* DatabaseService.get_result of the worker: the lookup, or None when the
\* lookup raised (the except clause logs and returns None).
get_result(s, j, raised) == IF raised THEN FALSE ELSE HasRecord(s, j)

\* get_sentiment_result of the API for job_id j, against collection s with
\* or without the unique index: DatabaseService() connects and creates the
\* index (an error on a collection that holds duplicates); no document is
\* 404; SentimentResult(**result) validates the score; any exception that
\* is no HTTPException is answered 500.
get_sentiment_result(s, idx, j) ==
    IF ~idx /\ ~NoDuplicateJobIds(s)
    THEN [status |-> 500, job_id |-> "none"]
    ELSE IF ~HasRecord(s, j)
    THEN [status |-> 404, job_id |-> "none"]
    ELSE LET r == s[FirstIndex(s, j)] IN
         IF r.score >= ScoreMin /\ r.score <= ScoreMax
         THEN [status |-> 200, job_id |-> r.job_id]
         ELSE [status |-> 500, job_id |-> "none"]

\* ------------------------------------------------------- classifier
C33_StrictThreshold(raised, raw) ==
    IF raised
    THEN [sentiment |-> "neutral", score |-> FallbackScore]
    ELSE [sentiment |-> IF raw > Threshold THEN "positive" ELSE "negative",
          score |-> raw]

\* ModelService.predict: the label follows the score; any exception gives
\* ("neutral", 0.5).
predict(raised, raw) ==
    IF raised
    THEN [sentiment |-> "neutral", score |-> FallbackScore]
    ELSE [sentiment |-> IF raw >= Threshold THEN "positive" ELSE "negative",
          score |-> raw]

C30_TextTruncated(w, message, p) ==
    [job_id |-> message.job_id, text |-> <<"text">>,
     sentiment |-> p.sentiment, score |-> p.score, timestamp |-> message.timestamp,
     worker_id |-> w, status |-> "completed"]

\* The result document of process_message, from the fields of the parsed
\* message and the classifier's answer.
ResultDoc(w, message, p) ==
    [job_id |-> message.job_id, text |-> message.text,
     sentiment |-> p.sentiment, score |-> p.score, timestamp |-> message.timestamp,
     worker_id |-> w, status |-> "completed"]

WithId(doc, oid) ==
    [job_id |-> doc.job_id, text |-> doc.text,
     sentiment |-> doc.sentiment, score |-> doc.score, timestamp |-> doc.timestamp,
     worker_id |-> doc.worker_id, status |-> doc.status, oid |-> oid]

\* ----------------------------------------------------------- broker
Remove(seq, m) == SelectSeq(seq, LAMBDA x : x # m)

\* basic_ack on an open channel: the delivery is settled and gone.
BrokerAck(w) ==
    /\ unacked' = [unacked EXCEPT ![w] = Remove(@, cur[w])]
    /\ UNCHANGED <<queue, dlq, chanOpen>>

\* basic_nack on an open channel.  requeue=True: back to the head of the
\* main queue.  requeue=False: the main queue's x-dead-letter-exchange ''
\* and x-dead-letter-routing-key route the message to the dead-letter
\* queue.
BrokerNack(w, requeue) ==
    /\ unacked' = [unacked EXCEPT ![w] = Remove(@, cur[w])]
    /\ queue' = IF requeue THEN <<cur[w]>> \o queue ELSE queue
    /\ dlq' = IF requeue THEN dlq ELSE Append(dlq, cur[w])
    /\ UNCHANGED chanOpen

\* The broker closes a consumer's channel: what it held unacknowledged
\* goes back to the head of the main queue.
BrokerDropConsumer(w) ==
    /\ chanOpen' = [chanOpen EXCEPT ![w] = FALSE]
    /\ queue' = unacked[w] \o queue
    /\ unacked' = [unacked EXCEPT ![w] = <<>>]
    /\ UNCHANGED dlq

\* ----------------------------------------------------------- worker
\* process_message returns to start_consuming.
WorkerReturns(w, m) ==
    /\ pc' = [pc EXCEPT ![w] = "idle"]
    /\ cur' = [cur EXCEPT ![w] = NoMsg]
    /\ result' = [result EXCEPT ![w] = NoDoc]
    /\ metrics' = [metrics EXCEPT ![w] = m]
    /\ late' = [late EXCEPT ![w] = FALSE]
    /\ redelivered' = [redelivered EXCEPT ![w] = FALSE]

C36_KeepsConsuming(w, m) == WorkerReturns(w, m)

\* An exception leaves process_message and start_consuming: start() logs
\* it, closes the connection and the process ends.
WorkerExits(w, m) ==
    /\ pc' = [pc EXCEPT ![w] = "down"]
    /\ cur' = [cur EXCEPT ![w] = NoMsg]
    /\ result' = [result EXCEPT ![w] = NoDoc]
    /\ metrics' = [metrics EXCEPT ![w] = m]
    /\ late' = [late EXCEPT ![w] = FALSE]
    /\ redelivered' = [redelivered EXCEPT ![w] = FALSE]

\* n + k, followed up to MaxCount.
Counted(n, k) == IF n + k <= MaxCount THEN n + k ELSE MaxCount

C15_CountsTwice(m, counter) == [m EXCEPT ![counter] = @ + 2]

\* self.metrics[counter] += 1
Bump(m, counter) == [m EXCEPT ![counter] = Counted(@, 1)]

C37_ReadAndReset(w, m) ==
    [metrics |-> ZeroMetrics,
     returned |-> [total_processed |-> m.total_processed, total_failed |-> m.total_failed,
                   total_duplicates |-> m.total_duplicates, start_time |-> m.start_time,
                   worker_id |-> w]]

\* get_metrics (lines 169-177): self.metrics after the call, and the dict
\* returned, a copy of self.metrics with worker_id (and with uptime and
\* processing_rate, which depend on the clock and are left out).
get_metrics(w, m) ==
    [metrics |-> m,
     returned |-> [total_processed |-> m.total_processed, total_failed |-> m.total_failed,
                   total_duplicates |-> m.total_duplicates, start_time |-> m.start_time,
                   worker_id |-> w]]

\* The worker process is alive: start() has not returned.
Running(w) == pc[w] \notin {"down", "stopped"}

\* process_message ends for one delivery, by return or by an exception out
\* of it, after nacks calls of basic_nack and dups duplicates found.
Handled(w, nacks, dups) ==
    tally' = [tally EXCEPT ![w] = [handled |-> Counted(@.handled, 1),
                                   nacks |-> Counted(@.nacks, nacks),
                                   dups |-> Counted(@.dups, dups)]]

\* pika calls process_message with the delivery (lines 109-112).
CallbackStarts(w, m) ==
    /\ pc' = [pc EXCEPT ![w] = "parse"]
    /\ cur' = [cur EXCEPT ![w] = m]
    /\ late' = [late EXCEPT ![w] = IsJob(m) /\ HasRecord(store, JobOf(m))]
    /\ redelivered' = [redelivered EXCEPT ![w] = IsJob(m) /\ JobOf(m) \in crashedAfterSave]
    /\ UNCHANGED <<result, metrics>>

C8_QosMissing(w) == TRUE

\* basic_qos(prefetch_count=1): no delivery to a consumer that holds as
\* many unacknowledged messages as its channel's prefetch count; a channel
\* without basic_qos has no limit.
QosAllows(w) == setup[w].prefetch = 0 \/ Len(unacked[w]) < setup[w].prefetch

\* The broker hands the head of the queue to a consumer that holds fewer
\* than prefetch_count unacknowledged messages (basic_qos, basic_consume
\* with auto_ack=False); a worker waiting in start_consuming runs
\* process_message on it.
Deliver(w) ==
    /\ Running(w)
    /\ chanOpen[w]
    /\ queue # <<>>
    /\ QosAllows(w)
    /\ unacked' = [unacked EXCEPT ![w] = Append(@, Head(queue))]
    /\ queue' = Tail(queue)
    /\ IF pc[w] = "idle"
       THEN CallbackStarts(w, Head(queue))
       ELSE UNCHANGED <<workerVars, late, redelivered>>
    /\ UNCHANGED <<dlq, chanOpen, storeVars, envVars,
                   ackedProcessed, crashedAfterSave, attempts, raced, tally>>
    /\ UNCHANGED <<setupVars, apiVars, unitVars>>

C5_RequeueMalformed(w) == TRUE

\* ch.basic_nack(delivery_tag=..., requeue=False) of the JSONDecodeError
\* handler.
RequeueOnDecodeError(w) == FALSE

\* json.loads raises JSONDecodeError: nack without requeue, then count
\* (lines 157-161).  On a closed channel basic_nack raises inside the
\* handler, before the count.
HandleMalformed(w) ==
    /\ pc[w] = "parse"
    /\ JsonLoads(cur[w]).error = "JSONDecodeError"
    /\ IF chanOpen[w]
       THEN /\ BrokerNack(w, RequeueOnDecodeError(w))
            /\ WorkerReturns(w, Bump(metrics[w], "total_failed"))
       ELSE /\ WorkerExits(w, metrics[w])
            /\ UNCHANGED brokerVars
    /\ Handled(w, 1, 0)
    /\ UNCHANGED <<storeVars, envVars, ackedProcessed, crashedAfterSave, attempts, raced>>
    /\ UNCHANGED <<setupVars, apiVars, unitVars>>

\* The idempotency check (lines 115-124): parse, then get_result.
CheckDuplicate(w) ==
    /\ pc[w] = "parse"
    /\ JsonLoads(cur[w]).ok
    /\ IsJob(cur[w])
    /\ \E raised \in BOOLEAN :
        LET job_id == JsonLoads(cur[w]).obj.job_id
            existing_result == get_result(store, job_id, raised)
        IN  /\ IF raised THEN InjectFailure ELSE UNCHANGED failures
            /\ pc' = [pc EXCEPT ![w] = IF existing_result THEN "dup" ELSE "process"]
            /\ raced' = IF /\ ~existing_result
                           /\ ~HasRecord(store, job_id)
                           /\ \E v \in Workers \ {w} : pc[v] = "process" /\ cur[v] = cur[w]
                        THEN raced \cup {job_id}
                        ELSE raced
    /\ UNCHANGED <<brokerVars, storeVars, cur, result, metrics, published, foreign,
                   ackedProcessed, crashedAfterSave, late, redelivered, attempts, tally>>
    /\ UNCHANGED <<setupVars, apiVars, unitVars>>

\* The duplicate path (lines 125-128): count, then ack.  On a closed
\* channel basic_ack raises, and so does the basic_nack of the handler.
AckDuplicate(w) ==
    /\ pc[w] = "dup"
    /\ IF chanOpen[w]
       THEN /\ BrokerAck(w)
            /\ WorkerReturns(w, Bump(metrics[w], "total_duplicates"))
            /\ Handled(w, 0, 1)
       ELSE /\ WorkerExits(w, Bump(metrics[w], "total_duplicates"))
            /\ Handled(w, 1, 1)
            /\ UNCHANGED brokerVars
    /\ UNCHANGED <<storeVars, envVars, ackedProcessed, crashedAfterSave, attempts, raced>>
    /\ UNCHANGED <<setupVars, apiVars, unitVars>>

C7_SaveErrorSwallowed == "saved"

\* save_result re-raises what insert_one or update_one raised (raise at
\* line 68; an exception inside the DuplicateKeyError clause propagates):
\* process_message goes to its generic handler.
AfterSaveError == "failed"

\* The classifier call, the result document (lines 130-146) and the
\* insert_one of save_result (database_service.py lines 56-58, 66-68).
\* insert_one puts a new _id into the result dict before it sends it.
ClassifyAndInsert(w) ==
    /\ pc[w] = "process"
    /\ \E raised \in BOOLEAN, raw \in ModelOutputs :
        /\ raised => raw = 4
        /\ LET doc == WithId(ResultDoc(w, JsonLoads(cur[w]).obj,
                                       predict(raised, raw)),
                             NewObjectId(store))
           IN  \/ /\ InjectFailure
                  /\ pc' = [pc EXCEPT ![w] = AfterSaveError]
                  /\ UNCHANGED <<store, result>>
               \/ /\ LET out == InsertOutcome(store, uniqueIndex, doc) IN
                      /\ store' = IF out = "ok" THEN InsertInto(store, doc) ELSE store
                      /\ result' = [result EXCEPT ![w] = IF out = "ok" THEN NoDoc ELSE doc]
                      /\ pc' = [pc EXCEPT ![w] = IF out = "ok" THEN "saved" ELSE "update"]
                  /\ UNCHANGED failures
    /\ UNCHANGED <<brokerVars, uniqueIndex, cur, metrics,
                   published, foreign, histVars>>
    /\ UNCHANGED <<setupVars, apiVars, unitVars>>

\* save_result after DuplicateKeyError: update_one (lines 59-65).  An
\* error raised here leaves save_result.
SaveUpdate(w) ==
    /\ pc[w] = "update"
    /\ \/ /\ InjectFailure
          /\ pc' = [pc EXCEPT ![w] = AfterSaveError]
          /\ UNCHANGED store
       \/ /\ LET out == UpdateOutcome(store, result[w]) IN
              /\ pc' = [pc EXCEPT ![w] = IF out = "WriteError" THEN AfterSaveError ELSE "saved"]
              /\ store' = IF out = "ok"
                          THEN [store EXCEPT ![FirstIndex(store, result[w].job_id)] = result[w]]
                          ELSE store
          /\ UNCHANGED failures
    /\ result' = [result EXCEPT ![w] = NoDoc]
    /\ UNCHANGED <<brokerVars, uniqueIndex, cur, metrics,
                   published, foreign, histVars>>
    /\ UNCHANGED <<setupVars, apiVars, unitVars>>

\* After save_result returned (lines 151-155): count, then ack.
AckProcessed(w) ==
    /\ pc[w] = "saved"
    /\ IF chanOpen[w]
       THEN /\ BrokerAck(w)
            /\ WorkerReturns(w, Bump(metrics[w], "total_processed"))
            /\ ackedProcessed' = ackedProcessed \cup {JobOf(cur[w])}
            /\ Handled(w, 0, 0)
       ELSE /\ WorkerExits(w, Bump(metrics[w], "total_processed"))
            /\ Handled(w, 1, 0)
            /\ UNCHANGED <<brokerVars, ackedProcessed>>
    /\ UNCHANGED <<storeVars, envVars, crashedAfterSave, attempts, raced>>
    /\ UNCHANGED <<setupVars, apiVars, unitVars>>

C6_NeverRequeue(w) == FALSE

C9_RequeueCapped(w) == attempts[JobOf(cur[w])] < 1

\* ch.basic_nack(delivery_tag=..., requeue=True) of the generic handler:
\* whatever the number of earlier attempts.
RequeueOnException(w) == TRUE

\* The generic handler (lines 163-167): nack with requeue, then count.
NackRequeue(w) ==
    /\ pc[w] = "failed"
    /\ IF chanOpen[w]
       THEN /\ BrokerNack(w, RequeueOnException(w))
            /\ WorkerReturns(w, Bump(metrics[w], "total_failed"))
            /\ attempts' = IF IsJob(cur[w])
                           THEN [attempts EXCEPT ![JobOf(cur[w])] = @ + 1]
                           ELSE attempts
       ELSE /\ WorkerExits(w, metrics[w])
            /\ UNCHANGED <<brokerVars, attempts>>
    /\ Handled(w, 1, 0)
    /\ UNCHANGED <<storeVars, envVars, ackedProcessed, crashedAfterSave, raced>>
    /\ UNCHANGED <<setupVars, apiVars, unitVars>>

\* ------------------------------------------------------ environment
\* analyze_sentiment_async with publish_message: a new uuid4 job id, the
\* envelope serialised and published to the main queue.
Publish(j) ==
    /\ j \notin published
    /\ j = JobOrder[Cardinality(published) + 1]
    /\ published' = published \cup {j}
    /\ queue' = Append(queue, JsonDumps(Envelope(j)))
    /\ UNCHANGED <<dlq, unacked, chanOpen, storeVars, workerVars,
                   foreign, failures, histVars>>
    /\ UNCHANGED <<setupVars, apiVars, unitVars>>

\* Another publisher puts a body that is not JSON on the queue.
ForeignPublish(g) ==
    /\ g \notin foreign
    /\ foreign' = foreign \cup {g}
    /\ queue' = Append(queue, Garbage(g))
    /\ UNCHANGED <<dlq, unacked, chanOpen, storeVars, workerVars,
                   published, failures, histVars>>
    /\ UNCHANGED <<setupVars, apiVars, unitVars>>

\* The API's DatabaseService._connect, run by every result retrieval:
\* create_index("job_id", unique=True).  It is the only place that creates
\* the index, and it fails on a collection that already holds duplicates.
ApiDatabaseConnect ==
    /\ ~uniqueIndex
    /\ NoDuplicateJobIds(store)
    /\ uniqueIndex' = TRUE
    /\ UNCHANGED <<brokerVars, store, workerVars, envVars, histVars>>
    /\ UNCHANGED <<setupVars, apiVars, unitVars>>

\* The broker drops a worker's connection (heartbeat missed while the
\* callback runs, network loss).  A worker waiting in start_consuming
\* sees it at once and ends; a worker inside process_message goes on and
\* meets the closed channel at its ack or nack.
ConnectionLost(w) ==
    /\ Running(w)
    /\ chanOpen[w]
    /\ InjectFailure
    /\ BrokerDropConsumer(w)
    /\ IF pc[w] = "idle"
       THEN WorkerExits(w, metrics[w])
       ELSE UNCHANGED <<workerVars, late, redelivered>>
    /\ UNCHANGED <<storeVars, published, foreign,
                   ackedProcessed, crashedAfterSave, attempts, raced, tally>>
    /\ UNCHANGED <<setupVars, apiVars, unitVars>>

\* The worker process is killed; its counters are gone with it.  (A
\* worker process lives once: main.py starts one worker and ends with it.)
Crash(w) ==
    /\ Running(w)
    /\ InjectFailure
    /\ IF chanOpen[w] THEN BrokerDropConsumer(w) ELSE UNCHANGED brokerVars
    /\ crashedAfterSave' = IF pc[w] = "saved"
                           THEN crashedAfterSave \cup {JobOf(cur[w])}
                           ELSE crashedAfterSave
    /\ WorkerExits(w, ZeroMetrics)
    /\ tally' = [tally EXCEPT ![w] = ZeroTally]
    /\ UNCHANGED <<storeVars, published, foreign, ackedProcessed, attempts, raced>>
    /\ UNCHANGED <<setupVars, apiVars, unitVars>>

\* SIGINT: KeyboardInterrupt is raised where the worker is.  It is no
\* Exception, so inside process_message no except clause takes it: it
\* leaves the callback and start_consuming, and start() reads the metrics
\* with get_metrics, logs them and closes the connection (lines 194-199); the broker requeues what the
\* channel held.
Interrupt(w) ==
    /\ Running(w)
    /\ InjectFailure
    /\ IF chanOpen[w] THEN BrokerDropConsumer(w) ELSE UNCHANGED brokerVars
    /\ pc' = [pc EXCEPT ![w] = "stopped"]
    /\ cur' = [cur EXCEPT ![w] = NoMsg]
    /\ result' = [result EXCEPT ![w] = NoDoc]
    /\ late' = [late EXCEPT ![w] = FALSE]
    /\ redelivered' = [redelivered EXCEPT ![w] = FALSE]
    /\ metrics' = [metrics EXCEPT ![w] = get_metrics(w, metrics[w]).metrics]
    /\ report' = [report EXCEPT ![w] = get_metrics(w, metrics[w]).returned]
    /\ UNCHANGED <<storeVars, published, foreign,
                   ackedProcessed, crashedAfterSave, attempts, raced, tally>>
    /\ UNCHANGED <<setupVars, apiVars, sample, verdict>>

\* --------------------------------------------- connection and topology
\* QueueService._create_connection: max_retries = 3, retry_delay = 2
producer_max_retries == 3
producer_retry_delay == 2
\* SentimentWorker.setup_rabbitmq: max_retries = 5, retry_delay = 5
worker_max_retries == 5
worker_retry_delay == 5
\* DatabaseService._connect of the worker: max_retries = 3, retry_delay = 2
store_max_retries == 3
store_retry_delay == 2

\* What publish_message declares.
ProducerTopology ==
    [exchange |-> [name |-> "sentiment_exchange", type |-> "direct", durable |-> TRUE],
     queue |-> [name |-> "sentiment_analysis_queue", durable |-> TRUE,
                dlx |-> "", dlrk |-> "sentiment_analysis_queue_dlq", maxprio |-> 10],
     binding |-> [exchange |-> "sentiment_exchange", queue |-> "sentiment_analysis_queue",
                  routing_key |-> "sentiment.job"],
     dlq |-> [name |-> "sentiment_analysis_queue_dlq", durable |-> TRUE,
              dlx |-> "none", dlrk |-> "none", maxprio |-> 0]]

C19_WorkerDlqNotDurable ==
    [ProducerTopology EXCEPT !.dlq = [@ EXCEPT !.durable = FALSE]]

\* What setup_rabbitmq declares.
WorkerTopology ==
    [exchange |-> [name |-> "sentiment_exchange", type |-> "direct", durable |-> TRUE],
     queue |-> [name |-> "sentiment_analysis_queue", durable |-> TRUE,
                dlx |-> "", dlrk |-> "sentiment_analysis_queue_dlq", maxprio |-> 10],
     binding |-> [exchange |-> "sentiment_exchange", queue |-> "sentiment_analysis_queue",
                  routing_key |-> "sentiment.job"],
     dlq |-> [name |-> "sentiment_analysis_queue_dlq", durable |-> TRUE,
              dlx |-> "none", dlrk |-> "none", maxprio |-> 0]]

NoTopology == [exchanges |-> {}, queues |-> {}, bindings |-> {}]

\* The broker after one full declaration.
Declared(e) ==
    [exchanges |-> {e.exchange}, queues |-> {e.queue, e.dlq}, bindings |-> {e.binding}]

\* exchange_declare / queue_declare of a name the broker knows with other
\* properties is refused (PRECONDITION_FAILED); with the same, a no-op.
SameOrNew(existing, x) == \A y \in existing : y.name = x.name => y = x

\* The declarations in the order both declarers make them.
DeclareSteps == {"exchange", "queue", "bind", "dlq"}

DeclareAccepted(t, step, e) ==
    CASE step = "exchange" -> SameOrNew(t.exchanges, e.exchange)
      [] step = "queue" -> SameOrNew(t.queues, e.queue)
      [] step = "bind" -> /\ \E x \in t.exchanges : x.name = e.binding.exchange
                          /\ \E q \in t.queues : q.name = e.binding.queue
      [] step = "dlq" -> SameOrNew(t.queues, e.dlq)

Declare(t, step, e) ==
    CASE step = "exchange" -> [t EXCEPT !.exchanges = @ \cup {e.exchange}]
      [] step = "queue" -> [t EXCEPT !.queues = @ \cup {e.queue}]
      [] step = "bind" -> [t EXCEPT !.bindings = @ \cup {e.binding}]
      [] step = "dlq" -> [t EXCEPT !.queues = @ \cup {e.dlq}]

\* The statement after each declaration: the next declaration, and after
\* the last one what the declarer does next.
AfterStep(step, last) ==
    CASE step = "exchange" -> "queue"
      [] step = "queue" -> "bind"
      [] step = "bind" -> "dlq"
      [] step = "dlq" -> last

\* basic_publish(exchange, routing_key): the broker puts the body on the
\* queue bound to the exchange by that key; with no such binding the
\* message is dropped.
Routed(t, q, b, body) == IF b \in t.bindings THEN Append(q, body) ELSE q

\* A connection attempt or a broker operation fails.
Refuse ==
    /\ refusals < MaxRefusals
    /\ refusals' = refusals + 1

\* No answer of the endpoint yet.
NoResponse == [status |-> 0, job_id |-> "none"]

IdleCall ==
    [pc |-> "idle", attempt |-> 0, delays |-> <<>>, conn |-> "none", sent |-> 0,
     response |-> NoResponse]
\* __init__ makes the DatabaseService first: the worker is at the loop of
\* its _connect.
NewWorker ==
    [pc |-> "store", attempt |-> 0, delays |-> <<>>, db_attempt |-> 0, db_delays |-> <<>>,
     db |-> "none", declared |-> {}, prefetch |-> 0]
C34_StoreErrorSwallowed ==
    [pc |-> "connect", attempt |-> 0, delays |-> <<>>, db_attempt |-> 0, db_delays |-> <<>>,
     db |-> "none", declared |-> {}, prefetch |-> 0]

\* _connect returned: __init__ is at setup_rabbitmq.
ConnectingWorker ==
    [pc |-> "connect", attempt |-> 0, delays |-> <<>>, db_attempt |-> 0, db_delays |-> <<>>,
     db |-> "connected", declared |-> {}, prefetch |-> 0]
\* start() is in start_consuming: db says the store connection stands,
\* declared what the worker's channel has declared, prefetch the
\* channel's prefetch count (0: no limit).
ConsumingWorker ==
    [pc |-> "consuming", attempt |-> 0, delays |-> <<>>, db_attempt |-> 0, db_delays |-> <<>>,
     db |-> "connected", declared |-> {"exchange", "queue", "bind", "dlq"},
     prefetch |-> prefetch_count]

C22_AlwaysAccepted(j, outcome) == [status |-> 202, job_id |-> j]

\* analyze_sentiment_async around publish_message: 202 with the job_id
\* when the call returned, 500 without it when the call raised.
AsyncResponse(j, outcome) ==
    CASE outcome = "returned" -> [status |-> 202, job_id |-> j]
      [] outcome = "raised" -> [status |-> 500, job_id |-> "none"]
      [] OTHER -> NoResponse

\* The call record with the endpoint's answer, once publish_message ended.
Answered(j, c) == [c EXCEPT !.response = AsyncResponse(j, c.pc)]

\* ------------------------------------------------------------ producer
\* analyze_sentiment_async makes the job id and calls publish_message.
PublishCalled(j) ==
    /\ call[j].pc = "idle"
    /\ j \notin published
    /\ published' = published \cup {j}
    /\ call' = [call EXCEPT ![j].pc = "connect"]
    /\ UNCHANGED <<brokerVars, storeVars, workerVars, apiVars, unitVars, foreign, failures, histVars,
                   topology, declErrors, setup, refusals>>

C17_OneMoreAttempt(attempt) == attempt = producer_max_retries

\* if attempt == max_retries - 1: raise
ProducerLastAttempt(attempt) == attempt = producer_max_retries - 1

\* One turn of the loop of _create_connection: BlockingConnection returns
\* the connection, or raises AMQPConnectionError; then sleep(retry_delay)
\* and the next turn, or on the last turn the raise, which publish_message
\* turns into its Exception (connection is still None in its finally).
ProducerConnect(j) ==
    /\ call[j].pc = "connect"
    /\ \E refused \in BOOLEAN :
        LET c == call[j] IN
        IF refused
        THEN /\ Refuse
             /\ call' = [call EXCEPT ![j] =
                    IF ProducerLastAttempt(c.attempt)
                    THEN Answered(j, [c EXCEPT !.pc = "raised"])
                    ELSE [c EXCEPT !.attempt = c.attempt + 1,
                                   !.delays = Append(c.delays, producer_retry_delay)]]
        ELSE /\ call' = [call EXCEPT ![j] = [c EXCEPT !.pc = "exchange", !.conn = "open"]]
             /\ UNCHANGED refusals
    /\ UNCHANGED <<brokerVars, storeVars, workerVars, apiVars, unitVars, envVars, histVars,
                   topology, declErrors, setup>>

C35_LeftOpen == "open"

\* finally: if connection and not connection.is_closed: connection.close()
\* (lines 104-106): the state of the connection publish_message opened,
\* when the call is over.
ClosedByFinally == "closed"

C20_RetryPublish == "connect"

\* except AMQPError: raise Exception(...); finally closes the connection.
AfterPublishError == "raised"

\* One declaration of publish_message (lines 56-85).  A broker error
\* (connection lost, declaration refused) is an AMQPError.
ProducerDeclare(j) ==
    /\ call[j].pc \in DeclareSteps
    /\ \E lost \in BOOLEAN :
        LET c == call[j] IN
        IF lost
        THEN /\ Refuse
             /\ call' = [call EXCEPT ![j] =
                    Answered(j, [c EXCEPT !.pc = "raised", !.conn = ClosedByFinally])]
             /\ UNCHANGED <<topology, declErrors>>
        ELSE /\ UNCHANGED refusals
             /\ IF DeclareAccepted(topology, c.pc, ProducerTopology)
                THEN /\ topology' = Declare(topology, c.pc, ProducerTopology)
                     /\ call' = [call EXCEPT ![j].pc = AfterStep(c.pc, "publish")]
                     /\ UNCHANGED declErrors
                ELSE /\ declErrors' = TRUE
                     /\ call' = [call EXCEPT ![j] =
                            Answered(j, [c EXCEPT !.pc = "raised", !.conn = ClosedByFinally])]
                     /\ UNCHANGED topology
    /\ UNCHANGED <<brokerVars, storeVars, workerVars, apiVars, unitVars, envVars, histVars, setup>>

\* basic_publish (lines 88-97), then the finally clause; publish_message
\* returns.  On a broker error the except clause raises.  Either way the
\* endpoint answers its caller.
ProducerPublish(j) ==
    /\ call[j].pc = "publish"
    /\ \E lost \in BOOLEAN :
        LET c == call[j] IN
        IF lost
        THEN /\ Refuse
             /\ call' = [call EXCEPT ![j] =
                    Answered(j, [c EXCEPT !.pc = AfterPublishError,
                                          !.conn = IF AfterPublishError = "raised"
                                                   THEN ClosedByFinally ELSE c.conn])]
             /\ UNCHANGED queue
        ELSE /\ UNCHANGED refusals
             /\ queue' = Routed(topology, queue, ProducerTopology.binding, JsonDumps(Envelope(j)))
             /\ call' = [call EXCEPT ![j] =
                    Answered(j, [c EXCEPT !.pc = "returned", !.conn = ClosedByFinally,
                                          !.sent = c.sent + 1])]
    /\ UNCHANGED <<dlq, unacked, chanOpen, storeVars, workerVars, apiVars, unitVars, envVars, histVars,
                   topology, declErrors, setup>>

\* ------------------------------------------------------- worker startup
C18_OneMoreTry(attempt) == attempt < worker_max_retries

\* if attempt < max_retries - 1: sleep and go on; else raise
WorkerRetries(attempt) == attempt < worker_max_retries - 1

\* The except AMQPConnectionError clause of setup_rabbitmq.
ConnectionErrorInSetup(w) ==
    LET c == setup[w] IN
    /\ Refuse
    /\ setup' = [setup EXCEPT ![w] =
            IF WorkerRetries(c.attempt)
            THEN [c EXCEPT !.pc = "connect", !.attempt = c.attempt + 1,
                           !.delays = Append(c.delays, worker_retry_delay),
                           !.declared = {}, !.prefetch = 0]
            ELSE [c EXCEPT !.pc = "failed"]]
    /\ chanOpen' = [chanOpen EXCEPT ![w] = FALSE]

C21_OneMoreTurn(attempt) == attempt < store_max_retries

\* if attempt < max_retries - 1: sleep and go on; else raise
StoreRetries(attempt) == attempt < store_max_retries - 1

\* One turn of the loop of the worker's DatabaseService._connect:
\* MongoClient and ping succeed and _connect returns, or ConnectionFailure
\* is raised; then sleep(retry_delay) and the next turn, or on the last
\* turn the raise, which leaves __init__ before setup_rabbitmq is called.
WorkerStoreConnect(w) ==
    /\ setup[w].pc = "store"
    /\ \E refused \in BOOLEAN :
        LET c == setup[w] IN
        IF refused
        THEN /\ Refuse
             /\ setup' = [setup EXCEPT ![w] =
                    IF StoreRetries(c.db_attempt)
                    THEN [c EXCEPT !.db_attempt = c.db_attempt + 1,
                                   !.db_delays = Append(c.db_delays, store_retry_delay)]
                    ELSE [c EXCEPT !.pc = "store_failed"]]
        ELSE /\ setup' = [setup EXCEPT ![w] = ConnectingWorker]
             /\ UNCHANGED refusals
    /\ UNCHANGED <<brokerVars, storeVars, workerVars, apiVars, unitVars, envVars, histVars,
                   topology, declErrors, call>>

\* BlockingConnection and channel() of one turn of setup_rabbitmq's loop.
WorkerConnect(w) ==
    /\ setup[w].pc = "connect"
    /\ \E refused \in BOOLEAN :
        IF refused
        THEN ConnectionErrorInSetup(w)
        ELSE /\ setup' = [setup EXCEPT ![w].pc = "exchange"]
             /\ chanOpen' = [chanOpen EXCEPT ![w] = TRUE]
             /\ UNCHANGED refusals
    /\ UNCHANGED <<queue, dlq, unacked, storeVars, workerVars, apiVars, unitVars, envVars, histVars,
                   topology, declErrors, call>>

\* One declaration of setup_rabbitmq (lines 64-93).  A lost connection is
\* an AMQPConnectionError and has the loop try again; a refused declaration
\* closes the channel with an error the loop does not catch.
WorkerDeclare(w) ==
    /\ setup[w].pc \in DeclareSteps
    /\ \E lost \in BOOLEAN :
        IF lost
        THEN /\ ConnectionErrorInSetup(w)
             /\ UNCHANGED <<topology, declErrors>>
        ELSE /\ UNCHANGED refusals
             /\ IF DeclareAccepted(topology, setup[w].pc, WorkerTopology)
                THEN /\ topology' = Declare(topology, setup[w].pc, WorkerTopology)
                     /\ setup' = [setup EXCEPT ![w] =
                            [@ EXCEPT !.pc = AfterStep(setup[w].pc, "qos"),
                                      !.declared = @ \cup {setup[w].pc}]]
                     /\ UNCHANGED <<declErrors, chanOpen>>
                ELSE /\ declErrors' = TRUE
                     /\ setup' = [setup EXCEPT ![w].pc = "failed"]
                     /\ chanOpen' = [chanOpen EXCEPT ![w] = FALSE]
                     /\ UNCHANGED topology
    /\ UNCHANGED <<queue, dlq, unacked, storeVars, workerVars, apiVars, unitVars, envVars, histVars, call>>

\* basic_qos(prefetch_count=1); setup_rabbitmq returns and __init__ sets
\* the counters.
WorkerQos(w) ==
    /\ setup[w].pc = "qos"
    /\ \E lost \in BOOLEAN :
        IF lost
        THEN /\ ConnectionErrorInSetup(w)
             /\ UNCHANGED metrics
        ELSE /\ setup' = [setup EXCEPT ![w] =
                    [@ EXCEPT !.pc = "ready", !.prefetch = prefetch_count]]
             /\ metrics' = [metrics EXCEPT ![w] = ZeroMetrics]
             /\ UNCHANGED <<refusals, chanOpen>>
    /\ UNCHANGED <<queue, dlq, unacked, storeVars, pc, cur, result, apiVars, unitVars,
                   envVars, histVars, topology, declErrors, call>>

\* worker.start(): basic_consume, the get_metrics of line 190 and
\* start_consuming.
WorkerStart(w) ==
    /\ setup[w].pc = "ready"
    /\ setup' = [setup EXCEPT ![w].pc = "consuming"]
    /\ metrics' = [metrics EXCEPT ![w] = get_metrics(w, metrics[w]).metrics]
    /\ report' = [report EXCEPT ![w] = get_metrics(w, metrics[w]).returned]
    /\ UNCHANGED <<brokerVars, storeVars, pc, cur, result, apiVars, sample, verdict,
                   envVars, histVars, topology, declErrors, call, refusals>>

\* The broker hands a message to a consumer.
FirstDelivery(w) ==
    /\ setup[w].pc = "consuming"
    /\ Deliver(w)

SetupInit ==
    /\ queue = <<>>
    /\ dlq = <<>>
    /\ unacked = [w \in Workers |-> <<>>]
    /\ chanOpen = [w \in Workers |-> FALSE]
    /\ store = <<>>
    /\ uniqueIndex = FALSE
    /\ pc = [w \in Workers |-> "idle"]
    /\ cur = [w \in Workers |-> NoMsg]
    /\ result = [w \in Workers |-> NoDoc]
    /\ metrics = [w \in Workers |-> NoMetrics]
    /\ published = {}
    /\ foreign = {}
    /\ failures = 0
    /\ ackedProcessed = {}
    /\ crashedAfterSave = {}
    /\ late = [w \in Workers |-> FALSE]
    /\ redelivered = [w \in Workers |-> FALSE]
    /\ attempts = [j \in JobIds |-> 0]
    /\ raced = {}
    /\ tally = [w \in Workers |-> ZeroTally]
    /\ topology = NoTopology
    /\ declErrors = FALSE
    /\ call = [j \in JobIds |-> IdleCall]
    /\ setup = [w \in Workers |-> ConnectingWorker]
    /\ refusals = 0
    /\ request = NoRequest
    /\ answer = NoAnswer
    /\ predictions = 0
    /\ report = [w \in Workers |-> NoReport]
    /\ sample = NoSample
    /\ verdict = NoVerdict

SetupNext ==
    \/ \E j \in JobIds :
        \/ PublishCalled(j)
        \/ ProducerConnect(j)
        \/ ProducerDeclare(j)
        \/ ProducerPublish(j)
    \/ \E w \in Workers :
        \/ WorkerConnect(w)
        \/ WorkerDeclare(w)
        \/ WorkerQos(w)
        \/ WorkerStart(w)
        \/ FirstDelivery(w)

SetupSpec == SetupInit /\ [][SetupNext]_vars

\* ---------------------------------------------------- specification
\* Bodies of another publisher that json.loads does not reject with
\* JSONDecodeError and that are no envelope.
PoisonBodies == {JsonArray("a1"), RawBytes("b1")}

PoisonPublish(b) ==
    /\ b.n \notin foreign
    /\ foreign' = foreign \cup {b.n}
    /\ queue' = Append(queue, b)
    /\ UNCHANGED <<dlq, unacked, chanOpen, storeVars, workerVars,
                   published, failures, histVars>>
    /\ UNCHANGED <<setupVars, apiVars, unitVars>>

\* Lines 115-116 raise something that is no JSONDecodeError: json.loads
\* raises UnicodeDecodeError, or it returns a list and message.get raises
\* AttributeError.  The generic clause takes it.
HandleNotEnvelope(w) ==
    /\ pc[w] = "parse"
    /\ \/ JsonLoads(cur[w]).error = "UnicodeDecodeError"
       \/ JsonLoads(cur[w]).ok /\ ~IsJob(cur[w])
    /\ pc' = [pc EXCEPT ![w] = "failed"]
    /\ UNCHANGED <<brokerVars, storeVars, cur, result, metrics, envVars, histVars>>
    /\ UNCHANGED <<setupVars, apiVars, unitVars>>

Init ==
    /\ queue = <<>>
    /\ dlq = <<>>
    /\ unacked = [w \in Workers |-> <<>>]
    /\ chanOpen = [w \in Workers |-> TRUE]
    /\ store = <<>>
    /\ uniqueIndex = FALSE
    /\ pc = [w \in Workers |-> "idle"]
    /\ cur = [w \in Workers |-> NoMsg]
    /\ result = [w \in Workers |-> NoDoc]
    /\ metrics = [w \in Workers |-> ZeroMetrics]
    /\ published = {}
    /\ foreign = {}
    /\ failures = 0
    /\ ackedProcessed = {}
    /\ crashedAfterSave = {}
    /\ late = [w \in Workers |-> FALSE]
    /\ redelivered = [w \in Workers |-> FALSE]
    /\ attempts = [j \in JobIds |-> 0]
    /\ raced = {}
    /\ tally = [w \in Workers |-> ZeroTally]
    /\ topology = Declared(WorkerTopology)
    /\ declErrors = FALSE
    /\ call = [j \in JobIds |-> IdleCall]
    /\ setup = [w \in Workers |-> ConsumingWorker]
    /\ refusals = 0
    /\ request = NoRequest
    /\ answer = NoAnswer
    /\ predictions = 0
    /\ report = [w \in Workers |-> get_metrics(w, ZeroMetrics).returned]
    /\ sample = NoSample
    /\ verdict = NoVerdict

Next ==
    \/ \E j \in JobIds : Publish(j)
    \/ \E g \in ForeignBodies : ForeignPublish(g)
    \/ ApiDatabaseConnect
    \/ \E w \in Workers :
        \/ Deliver(w)
        \/ HandleMalformed(w)
        \/ CheckDuplicate(w)
        \/ AckDuplicate(w)
        \/ ClassifyAndInsert(w)
        \/ SaveUpdate(w)
        \/ AckProcessed(w)
        \/ NackRequeue(w)
        \/ ConnectionLost(w)
        \/ Crash(w)
        \/ Interrupt(w)

Spec == Init /\ [][Next]_vars

\* Worker processes from the start of __init__, against a broker that
\* has the topology and a store that may refuse connections.
StartupInit ==
    /\ queue = <<>>
    /\ dlq = <<>>
    /\ unacked = [w \in Workers |-> <<>>]
    /\ chanOpen = [w \in Workers |-> FALSE]
    /\ store = <<>>
    /\ uniqueIndex = FALSE
    /\ pc = [w \in Workers |-> "idle"]
    /\ cur = [w \in Workers |-> NoMsg]
    /\ result = [w \in Workers |-> NoDoc]
    /\ metrics = [w \in Workers |-> NoMetrics]
    /\ published = {}
    /\ foreign = {}
    /\ failures = 0
    /\ ackedProcessed = {}
    /\ crashedAfterSave = {}
    /\ late = [w \in Workers |-> FALSE]
    /\ redelivered = [w \in Workers |-> FALSE]
    /\ attempts = [j \in JobIds |-> 0]
    /\ raced = {}
    /\ tally = [w \in Workers |-> ZeroTally]
    /\ topology = Declared(ProducerTopology)
    /\ declErrors = FALSE
    /\ call = [j \in JobIds |-> IdleCall]
    /\ setup = [w \in Workers |-> NewWorker]
    /\ refusals = 0
    /\ request = NoRequest
    /\ answer = NoAnswer
    /\ predictions = 0
    /\ report = [w \in Workers |-> NoReport]
    /\ sample = NoSample
    /\ verdict = NoVerdict

StartupNext ==
    \/ \E j \in JobIds : Publish(j)
    \/ \E w \in Workers :
        \/ WorkerStoreConnect(w)
        \/ WorkerConnect(w)
        \/ WorkerDeclare(w)
        \/ WorkerQos(w)
        \/ WorkerStart(w)
        \/ FirstDelivery(w)

StartupSpec == StartupInit /\ [][StartupNext]_vars

\* ------------------------------------------------------ API endpoints
\* A text of n characters.
TextOfLength(n) == [i \in 1..n |-> IF i % 2 = 1 THEN "a" ELSE "b"]

RequestTexts == {TextOfLength(n) : n \in 0..MaxTextLen}

Ellipsis == <<".", ".", ".">>

\* text[:k]
Prefix(text, k) == SubSeq(text, 1, IF Len(text) < k THEN Len(text) ELSE k)

C25_MaxExclusive(text) == Len(text) >= min_length /\ Len(text) < max_length

\* SentimentRequest: FastAPI answers 422, without calling the endpoint,
\* when the text is shorter than min_length or longer than max_length.
Validates(text) == Len(text) >= min_length /\ Len(text) <= max_length

\* request.text[:100] + ("..." if len(request.text) > 100 else "")
ResponseText(text) ==
    Prefix(text, preview_length) \o (IF Len(text) > preview_length THEN Ellipsis ELSE <<>>)

\* The scores the API's ModelService.predict returns: clamped to [0, 1].
ApiScores == {ScoreMin, 4, Threshold, ScoreMax}

\* ModelService.predict of the API for a text whose keywords give score.
ApiPredict(score) ==
    [sentiment |-> IF score >= Threshold THEN "positive" ELSE "negative", score |-> score]

\* POST /sentiment/sync: validation, then analyze_sentiment_sync.
SyncRequest ==
    /\ request.endpoint = "sync"
    /\ answer = NoAnswer
    /\ IF ~Validates(request.text)
       THEN /\ answer' = [NoAnswer EXCEPT !.status = 422]
            /\ UNCHANGED predictions
       ELSE \E loaded \in BOOLEAN, score \in ApiScores :
            IF loaded
            THEN /\ predictions' = predictions + 1
                 /\ answer' = [NoAnswer EXCEPT !.status = 200,
                                               !.text = ResponseText(request.text),
                                               !.sentiment = ApiPredict(score).sentiment,
                                               !.score = ApiPredict(score).score]
            ELSE /\ score = ScoreMin
                 /\ answer' = [NoAnswer EXCEPT !.status = 500]
                 /\ UNCHANGED predictions
    /\ UNCHANGED <<brokerVars, storeVars, workerVars, envVars, histVars, setupVars, request,
                   unitVars>>

\* POST /sentiment/async: validation, then analyze_sentiment_async with
\* publish_message, which returns or raises.
AsyncRequest ==
    /\ request.endpoint = "async"
    /\ answer = NoAnswer
    /\ IF ~Validates(request.text)
       THEN /\ answer' = [NoAnswer EXCEPT !.status = 422]
            /\ UNCHANGED <<queue, published>>
       ELSE \E raised \in BOOLEAN :
            LET j == JobOrder[Cardinality(published) + 1] IN
            IF raised
            THEN /\ answer' = [NoAnswer EXCEPT !.status = 500]
                 /\ UNCHANGED <<queue, published>>
            ELSE /\ published' = published \cup {j}
                 /\ queue' = Append(queue, JsonDumps(Message(j, request.text, SubmittedAt(j))))
                 /\ answer' = [NoAnswer EXCEPT !.status = 202, !.job_id = j]
    /\ UNCHANGED <<dlq, unacked, chanOpen, storeVars, workerVars, foreign, failures,
                   histVars, setupVars, request, predictions, unitVars>>

ApiInit ==
    /\ queue = <<>>
    /\ dlq = <<>>
    /\ unacked = [w \in Workers |-> <<>>]
    /\ chanOpen = [w \in Workers |-> TRUE]
    /\ store = <<>>
    /\ uniqueIndex = FALSE
    /\ pc = [w \in Workers |-> "idle"]
    /\ cur = [w \in Workers |-> NoMsg]
    /\ result = [w \in Workers |-> NoDoc]
    /\ metrics = [w \in Workers |-> ZeroMetrics]
    /\ published = {}
    /\ foreign = {}
    /\ failures = 0
    /\ ackedProcessed = {}
    /\ crashedAfterSave = {}
    /\ late = [w \in Workers |-> FALSE]
    /\ redelivered = [w \in Workers |-> FALSE]
    /\ attempts = [j \in JobIds |-> 0]
    /\ raced = {}
    /\ tally = [w \in Workers |-> ZeroTally]
    /\ topology = Declared(ProducerTopology)
    /\ declErrors = FALSE
    /\ call = [j \in JobIds |-> IdleCall]
    /\ setup = [w \in Workers |-> ConsumingWorker]
    /\ refusals = 0
    /\ request \in [endpoint : {"sync", "async"}, text : RequestTexts]
    /\ answer = NoAnswer
    /\ predictions = 0
    /\ report = [w \in Workers |-> get_metrics(w, ZeroMetrics).returned]
    /\ sample = NoSample
    /\ verdict = NoVerdict

ApiNext == SyncRequest \/ AsyncRequest

ApiSpec == ApiInit /\ [][ApiNext]_vars

\* ---------------------------------------------------------- classifier
\* One call of the worker's ModelService.predict: the model raises on the
\* text, or it gives a float.
RawScores == (0 - MaxRawScore)..MaxRawScore

PredictCall ==
    /\ ~sample.called
    /\ verdict' = predict(sample.raised, sample.raw)
    /\ sample' = [sample EXCEPT !.called = TRUE]
    /\ UNCHANGED <<brokerVars, storeVars, workerVars, envVars, histVars, setupVars,
                   apiVars, report>>

ClassifierInit ==
    /\ queue = <<>>
    /\ dlq = <<>>
    /\ unacked = [w \in Workers |-> <<>>]
    /\ chanOpen = [w \in Workers |-> TRUE]
    /\ store = <<>>
    /\ uniqueIndex = FALSE
    /\ pc = [w \in Workers |-> "idle"]
    /\ cur = [w \in Workers |-> NoMsg]
    /\ result = [w \in Workers |-> NoDoc]
    /\ metrics = [w \in Workers |-> ZeroMetrics]
    /\ published = {}
    /\ foreign = {}
    /\ failures = 0
    /\ ackedProcessed = {}
    /\ crashedAfterSave = {}
    /\ late = [w \in Workers |-> FALSE]
    /\ redelivered = [w \in Workers |-> FALSE]
    /\ attempts = [j \in JobIds |-> 0]
    /\ raced = {}
    /\ tally = [w \in Workers |-> ZeroTally]
    /\ topology = Declared(WorkerTopology)
    /\ declErrors = FALSE
    /\ call = [j \in JobIds |-> IdleCall]
    /\ setup = [w \in Workers |-> ConsumingWorker]
    /\ refusals = 0
    /\ request = NoRequest
    /\ answer = NoAnswer
    /\ predictions = 0
    /\ report = [w \in Workers |-> get_metrics(w, ZeroMetrics).returned]
    /\ sample \in [raised : BOOLEAN, raw : RawScores, called : {FALSE}]
    /\ verdict = NoVerdict

ClassifierNext == PredictCall

ClassifierSpec == ClassifierInit /\ [][ClassifierNext]_vars

\* The workers against bodies of other publishers only.
PoisonNext ==
    \/ \E b \in PoisonBodies : PoisonPublish(b)
    \/ \E g \in ForeignBodies : ForeignPublish(g)
    \/ \E w \in Workers :
        \/ Deliver(w)
        \/ HandleMalformed(w)
        \/ metrics[w].total_failed < MaxRedeliveries /\ HandleNotEnvelope(w)
        \/ NackRequeue(w)

PoisonSpec == Init /\ [][PoisonNext]_vars

\* One statement of worker w inside process_message.
HandlerRuns(w) ==
    \/ HandleNotEnvelope(w)
    \/ CheckDuplicate(w)
    \/ AckDuplicate(w)
    \/ ClassifyAndInsert(w)
    \/ SaveUpdate(w)
    \/ AckProcessed(w)
    \/ NackRequeue(w)

\* The job and the body of another publisher that share the queue.
LiveJobs == {JobOrder[1]}
LiveBodies == {JsonArray("a1")}

\* A job of the API and a body of another publisher on the one queue, with
\* workers that can be killed.
LiveNext ==
    \/ \E j \in LiveJobs : Publish(j)
    \/ \E b \in LiveBodies : PoisonPublish(b)
    \/ ApiDatabaseConnect
    \/ \E w \in Workers :
        \/ Deliver(w)
        \/ HandlerRuns(w)
        \/ Crash(w)

\* The scheduling: a worker process goes on with the statement it is at
\* (one thread, start_consuming blocks in the callback), and the broker
\* delivers the head of the queue to a consumer that can take it.
LiveSpec ==
    /\ Init
    /\ [][LiveNext]_vars
    /\ \A w \in Workers : WF_vars(HandlerRuns(w)) /\ WF_vars(Deliver(w))

\* ----------------------------------------------------------- claims
InDlq(m) == \E i \in 1..Len(dlq) : dlq[i] = m
InQueue(m) == \E i \in 1..Len(queue) : queue[i] = m

\* Worker w takes a step of process_message while the broker still holds
\* its connection, before and after the step.
HandlerStep(w) == pc'[w] # pc[w] /\ chanOpen[w] /\ chanOpen'[w]

\* A basic_ack of worker w reaches the broker: one of its deliveries is
\* settled and the message is in neither queue afterwards.
AckReachesBroker(w) ==
    /\ chanOpen[w] /\ chanOpen'[w]
    /\ Len(unacked'[w]) < Len(unacked[w])
    /\ queue' = queue
    /\ dlq' = dlq

\* C1: in every reachable state the store holds at most one record per
\* job_id, and exactly one for every job_id acknowledged after processing.
C1_OneRecordPerJob ==
    \A j \in JobIds :
        /\ NumRecords(store, j) <= 1
        /\ j \in ackedProcessed => NumRecords(store, j) = 1

\* C2: a delivery of a job whose record was already stored when it was
\* delivered is handled on the duplicate path only: its worker never
\* reaches the classifier or the store write, the store keeps exactly one
\* record of the job, and when the handler returns it has added one to
\* total_duplicates and nothing to total_processed.
C2_SecondDeliveryIsDuplicate ==
    [][\A w \in Workers :
        late[w] =>
            /\ NumRecords(store', JobOf(cur[w])) = 1
            /\ pc'[w] \in {"parse", "dup", "idle", "down"}
            /\ pc'[w] = "idle" => metrics'[w] = Bump(metrics[w], "total_duplicates")]_vars

\* C3: when two workers are both past the duplicate check of one job that
\* has no record yet, at most one record of it is ever stored, and the
\* worker whose insert_one met the unique-key conflict gets a successful
\* update: with the store reachable, its save_result does not raise into
\* process_message.
C3_RaceLeavesOneRecord ==
    [][/\ \A j \in raced' : NumRecords(store', j) <= 1
       /\ \A w \in Workers :
            (/\ IsJob(cur[w]) /\ JobOf(cur[w]) \in raced
             /\ pc[w] = "update" /\ pc'[w] # pc[w]
             /\ failures' = failures)
                => pc'[w] = "saved"]_vars

\* C4: a delivery of a job whose writer was killed between save and ack is
\* resolved on the duplicate path: the classifier is not reached again and
\* no second record is created.
C4_RedeliveryAfterCrash ==
    \A w \in Workers :
        redelivered[w] =>
            /\ pc[w] \in {"parse", "dup"}
            /\ NumRecords(store, JobOf(cur[w])) = 1

C7_AckOnlyAfterRecord ==
    [][\A w \in Workers :
        AckReachesBroker(w) => IsJob(cur[w]) /\ HasRecord(store, JobOf(cur[w]))]_vars

C7_Witness ==
    /\ \E j \in JobIds : j \in ackedProcessed /\ attempts[j] >= 1
    /\ \E w \in Workers : metrics[w].total_duplicates >= 1

\* C8: every worker holds at most one delivered and unacknowledged message.
C8_OneUnackedPerWorker ==
    \A w \in Workers : Len(unacked[w]) <= 1

C8_Witness ==
    /\ \A w \in Workers : Len(unacked[w]) = 1 /\ pc[w] \notin {"idle", "down"}
    /\ queue # <<>>

\* C9: a job envelope is never in the dead-letter queue, and every time a
\* worker's generic handler rejects it, whatever the number of earlier
\* attempts, it is back in the main queue for another delivery.
C9_RetriedWithoutBound ==
    [][/\ \A i \in 1..Len(dlq') : ~IsJob(dlq'[i])
       /\ \A w \in Workers :
            (pc[w] = "failed" /\ HandlerStep(w)) =>
                /\ Head(queue') = cur[w]
                /\ attempts'[JobOf(cur[w])] = attempts[JobOf(cur[w])] + 1]_vars

C9_Witness ==
    \E j \in JobIds :
        /\ attempts[j] = MaxFailures
        /\ InQueue(JsonDumps(Envelope(j)))
        /\ ~InDlq(JsonDumps(Envelope(j)))

FallbackDoc(d) == d.job_id # "none" /\ d.sentiment = "neutral"

C15_ProcessedCountsCleanDeliveries ==
    \A w \in Workers :
        (tally[w].nacks = 0 /\ tally[w].dups = 0) =>
            metrics[w] = [ZeroMetrics EXCEPT !.total_processed = tally[w].handled]

C15_Witness ==
    \E w \in Workers :
        /\ tally[w] = [handled |-> Cardinality(JobIds), nacks |-> 0, dups |-> 0]
        /\ metrics[w].total_processed = Cardinality(JobIds)
        /\ \A j \in JobIds : \E i \in 1..Len(store) :
                store[i].job_id = j /\ store[i].worker_id = w

Copies(seq, m) == Cardinality({i \in 1..Len(seq) : seq[i] = m})

\* C17: a publish_message call makes at most 3 connection attempts, with
\* a delay of 2 before each further one; when none of them succeeded the
\* call has raised and has put no message anywhere.
C17_ProducerConnectBounded ==
    \A j \in JobIds :
        LET c == call[j] IN
        /\ c.attempt + 1 <= producer_max_retries
        /\ Len(c.delays) = c.attempt
        /\ \A i \in 1..Len(c.delays) : c.delays[i] = producer_retry_delay
        /\ (c.conn = "none" /\ c.pc \notin {"idle", "connect"}) =>
                /\ c.pc = "raised"
                /\ c.attempt + 1 = producer_max_retries
                /\ c.sent = 0
                /\ Copies(queue, JsonDumps(Envelope(j))) = 0

C17_Witness ==
    \E j \in JobIds :
        /\ call[j].pc = "raised"
        /\ call[j].conn = "none"
        /\ call[j].delays = <<producer_retry_delay, producer_retry_delay>>

\* C18: setup_rabbitmq makes at most 5 attempts, with a delay of 5 before
\* each further one, and ends: it returns with the topology declared and
\* the channel open, or it raises after the fifth failure; a worker whose
\* setup raised holds no message and has handled none, and only a worker
\* that started consuming is handed a message.
C18_WorkerSetupBounded ==
    \A w \in Workers :
        LET c == setup[w] IN
        /\ c.attempt + 1 <= worker_max_retries
        /\ Len(c.delays) = c.attempt
        /\ \A i \in 1..Len(c.delays) : c.delays[i] = worker_retry_delay
        /\ c.pc = "failed" =>
                /\ c.attempt + 1 = worker_max_retries
                /\ ~chanOpen[w]
        /\ c.pc \in {"ready", "consuming"} =>
                /\ topology = Declared(WorkerTopology)
                /\ chanOpen[w]
        /\ c.pc # "consuming" => unacked[w] = <<>> /\ pc[w] = "idle"

C18_Witness ==
    \E w, v \in Workers :
        /\ setup[w].pc = "failed"
        /\ Len(setup[w].delays) = worker_max_retries - 1
        /\ setup[v].pc = "consuming"
        /\ setup[v].attempt = 0
        /\ unacked[v] # <<>>

\* C19: no declaration is ever refused, the broker never holds anything
\* but the one exchange, the two queues and the one binding, and once any
\* producer call or worker has made its declarations the topology is that
\* of a single declaration, whoever declares afterwards.
C19_DeclarationsConverge ==
    /\ ~declErrors
    /\ topology.exchanges \subseteq Declared(ProducerTopology).exchanges
    /\ topology.queues \subseteq Declared(ProducerTopology).queues
    /\ topology.bindings \subseteq Declared(ProducerTopology).bindings
    /\ (\/ \E j \in JobIds : call[j].pc \in {"publish", "returned"}
        \/ \E w \in Workers : setup[w].pc \in {"qos", "ready", "consuming"})
            => topology = Declared(ProducerTopology)

C19_Witness ==
    /\ \A j \in JobIds : call[j].pc = "returned"
    /\ \A w \in Workers : setup[w].pc = "consuming"
    /\ topology = Declared(WorkerTopology)
    /\ refusals > 0

\* C20: a publish_message call puts at most one message on the main
\* queue; a broker error during the call makes it raise without placing
\* a message, and a call that has raised or returned does nothing more.
C20_PublishAtMostOnce ==
    [][\A j \in JobIds :
        /\ call'[j].sent <= 1
        /\ Copies(queue', JsonDumps(Envelope(j)))
                + Cardinality({w \in Workers : Copies(unacked'[w], JsonDumps(Envelope(j))) > 0}) <= 1
        /\ (/\ call[j].pc \in DeclareSteps \cup {"publish"}
            /\ refusals' # refusals
            /\ call'[j] # call[j]) => call'[j].pc = "raised" /\ queue' = queue
        /\ call[j].pc \in {"raised", "returned"} => call'[j] = call[j]]_vars

C20_Witness ==
    \E j, k \in JobIds :
        /\ call[j].pc = "raised"
        /\ call[j].conn = "closed"
        /\ Copies(queue, JsonDumps(Envelope(j))) = 0
        /\ call[k].pc = "returned"
        /\ call[k].sent = 1
        /\ Copies(queue, JsonDumps(Envelope(k))) = 1

\* C23: in every state, retrieval of a job id answers 404 when the store
\* holds no record of it and 200 with the record of that job id when it
\* holds one.
C23_RetrievalFollowsStore ==
    \A j \in JobIds :
        get_sentiment_result(store, uniqueIndex, j) =
            IF HasRecord(store, j)
            THEN [status |-> 200, job_id |-> j]
            ELSE [status |-> 404, job_id |-> "none"]

\* C26: whether or not an API process has connected to the store, the
\* insert of a worker for a job_id that already has a record meets the
\* unique-key conflict and adds no second record.
C26_InsertConflictsAlways ==
    [][\A w \in Workers :
        (/\ pc[w] = "process"
         /\ HasRecord(store, JobOf(cur[w]))
         /\ failures' = failures
         /\ pc'[w] # pc[w]) =>
            /\ pc'[w] = "update"
            /\ NumRecords(store', JobOf(cur[w])) = NumRecords(store, JobOf(cur[w]))]_vars

\* C27: when the duplicate check of a delivery finds a record, the handler
\* takes the duplicate path, and on it builds no result document and
\* leaves every record of the store as it was until the delivery ends.
C27_DuplicateLeavesStore ==
    [][\A w \in Workers :
        /\ (/\ pc[w] = "parse"
            /\ IsJob(cur[w])
            /\ HasRecord(store, JobOf(cur[w]))
            /\ failures' = failures
            /\ pc'[w] # pc[w]) => pc'[w] = "dup" /\ store' = store
        /\ (pc[w] = "dup" /\ pc'[w] # pc[w]) =>
                /\ store' = store
                /\ result'[w] = NoDoc
                /\ pc'[w] \in {"idle", "down", "stopped"}]_vars

C27_Witness ==
    \E w \in Workers :
        /\ pc[w] = "idle"
        /\ chanOpen[w]
        /\ tally[w] = [handled |-> 1, nacks |-> 0, dups |-> 1]
        /\ \E j \in JobIds :
                /\ NumRecords(store, j) = 1
                /\ store[FirstIndex(store, j)].worker_id # w
                /\ ~InQueue(JsonDumps(Envelope(j)))

\* The callback of worker w ends for a delivery in this step: it returns,
\* or an exception or an interrupt leaves it.
CallbackEnds(w) ==
    \/ tally'[w].handled = tally[w].handled + 1
    \/ pc'[w] = "stopped" /\ pc[w] \notin {"idle", "stopped"}

\* One decision of worker w about the delivery it handles reaches the
\* broker: acknowledge, reject with requeue or reject without requeue.
OneDecision(w) ==
    /\ chanOpen[w] /\ chanOpen'[w]
    /\ unacked'[w] = Remove(unacked[w], cur[w])
    /\ \/ queue' = queue /\ dlq' = dlq
       \/ queue' = <<cur[w]>> \o queue /\ dlq' = dlq
       \/ queue' = queue /\ dlq' = Append(dlq, cur[w])

\* C28: whenever the callback of a worker whose channel is open ends for
\* a delivery, exactly one decision about that delivery has reached the
\* broker.
C28_OneDecisionPerDelivery ==
    [][\A w \in Workers : (CallbackEnds(w) /\ chanOpen[w]) => OneDecision(w)]_vars

C29_NotEnvelopeDeadLettered ==
    [][\A w \in Workers :
        (/\ pc[w] \in {"parse", "failed"}
         /\ ~IsJob(cur[w])
         /\ pc'[w] = "idle"
         /\ chanOpen[w]) =>
            /\ dlq' = Append(dlq, cur[w])
            /\ queue' = queue
            /\ store' = store]_vars

\* C21: the worker's store connection makes at most 3 attempts, with a
\* delay of 2 before each further one; a worker whose store connection
\* raised after the third has no broker connection, holds no message and
\* has handled none, and so has every worker still connecting to the store.
C21_StoreConnectBounded ==
    \A w \in Workers :
        LET c == setup[w] IN
        /\ c.db_attempt + 1 <= store_max_retries
        /\ Len(c.db_delays) = c.db_attempt
        /\ \A i \in 1..Len(c.db_delays) : c.db_delays[i] = store_retry_delay
        /\ c.pc = "store_failed" => c.db_attempt + 1 = store_max_retries
        /\ c.pc \in {"store", "store_failed"} =>
                /\ ~chanOpen[w]
                /\ c.attempt = 0
                /\ unacked[w] = <<>>
                /\ pc[w] = "idle"
                /\ tally[w] = ZeroTally

C21_Witness ==
    \E w, v \in Workers :
        /\ setup[w].pc = "store_failed"
        /\ setup[w].db_delays = <<store_retry_delay, store_retry_delay>>
        /\ ~chanOpen[w]
        /\ setup[v].pc = "consuming"
        /\ unacked[v] # <<>>

\* C22: the submit endpoint has answered 202 with the job_id exactly when
\* publish_message returned, having sent the one envelope of that job_id;
\* it has answered 500 without a job_id exactly when publish_message
\* raised, and then no envelope of the job is anywhere.
C22_AcceptedMeansPublished ==
    \A j \in JobIds :
        LET c == call[j]
            m == JsonDumps(Envelope(j))
        IN  /\ c.pc = "returned" <=> c.response = [status |-> 202, job_id |-> j]
            /\ c.pc = "raised" <=> c.response = [status |-> 500, job_id |-> "none"]
            /\ c.pc \notin {"returned", "raised"} <=> c.response = NoResponse
            /\ c.response.status = 202 =>
                    /\ c.sent = 1
                    /\ j \in published
                    /\ Copies(queue, m) + Cardinality({w \in Workers : Copies(unacked[w], m) > 0}) = 1
            /\ c.response.status # 202 =>
                    /\ c.sent = 0
                    /\ Copies(queue, m) = 0
                    /\ \A w \in Workers : Copies(unacked[w], m) = 0

C22_Witness ==
    \E j, k \in JobIds :
        /\ call[j].response = [status |-> 500, job_id |-> "none"]
        /\ call[j].attempt = 0
        /\ call[k].response = [status |-> 202, job_id |-> k]
        /\ \E w \in Workers : Copies(unacked[w], JsonDumps(Envelope(k))) = 1

\* C24: whenever the synchronous endpoint has answered 200, the text of
\* the answer is the first 100 characters of the request text followed
\* by "...".
C24_ResponseTextHasEllipsis ==
    (request.endpoint = "sync" /\ answer.status = 200) =>
        answer.text = Prefix(request.text, preview_length) \o Ellipsis

\* C25: an endpoint has answered 422 exactly when the request text is
\* empty or longer than 1000 characters, and then no classifier call was
\* made and no message published; for a text of 1 to 1000 characters the
\* endpoint itself ran and gave the answer.
C25_LengthValidated ==
    answer # NoAnswer =>
        /\ answer.status = 422 <=> (Len(request.text) = 0 \/ Len(request.text) > 1000)
        /\ answer.status = 422 => predictions = 0 /\ queue = <<>> /\ published = {}
        /\ (Len(request.text) >= 1 /\ Len(request.text) <= 1000) =>
                \/ request.endpoint = "sync" /\ answer.status \in {200, 500}
                \/ request.endpoint = "async" /\ answer.status \in {202, 500}
        /\ answer.status = 200 => predictions = 1
        /\ answer.status = 202 => Len(queue) = 1 /\ published # {}

C25_Witness ==
    /\ request.endpoint = "async"
    /\ Len(request.text) = max_length + 1
    /\ answer.status = 422
    /\ queue = <<>>

\* C31: no step removes a record: a job_id that has a record keeps one,
\* and the store never gets shorter.
C31_RecordsNeverDeleted ==
    [][/\ Len(store') >= Len(store)
       /\ \A i \in 1..Len(store) : HasRecord(store', store[i].job_id)]_vars

C31_Witness ==
    /\ Len(store) > Cardinality(JobIds)
    /\ uniqueIndex = FALSE
    /\ \E w \in Workers : pc[w] = "down"
    /\ \E j \in JobIds : j \in ackedProcessed /\ NumRecords(store, j) = 2

\* C37: a get_metrics call leaves self.metrics as it was and returns its
\* values; the counters of a worker process start at 0, and no step of a
\* process that is alive afterwards lowers one or changes start_time.
C37_MetricsOnlyGrow ==
    [][\A w \in Workers :
        /\ report'[w] # report[w] =>
                /\ metrics'[w] = metrics[w]
                /\ report'[w] = [total_processed |-> metrics[w].total_processed,
                                 total_failed |-> metrics[w].total_failed,
                                 total_duplicates |-> metrics[w].total_duplicates,
                                 start_time |-> metrics[w].start_time,
                                 worker_id |-> w]
        /\ tally[w] = ZeroTally => metrics[w] = ZeroMetrics
        /\ Running(w)' =>
                /\ metrics'[w].total_processed >= metrics[w].total_processed
                /\ metrics'[w].total_failed >= metrics[w].total_failed
                /\ metrics'[w].total_duplicates >= metrics[w].total_duplicates
                /\ metrics'[w].start_time = metrics[w].start_time]_vars

C37_Witness ==
    \E w \in Workers :
        /\ pc[w] = "stopped"
        /\ report[w].total_processed = 1
        /\ report[w].total_failed = 1
        /\ metrics[w].total_processed = 1

\* C33: a call of predict returns, whatever the model does with the text;
\* the label is "neutral" exactly when the model raised, and otherwise
\* "positive" when the score is at least 0.5 and "negative" when it is
\* below.
C33_LabelFollowsScore ==
    sample.called =>
        /\ verdict.sentiment \in Sentiments
        /\ verdict.sentiment = "neutral" <=> sample.raised
        /\ ~sample.raised =>
                /\ verdict.score = sample.raw
                /\ verdict.sentiment = "positive" <=> verdict.score >= Threshold
                /\ verdict.sentiment = "negative" <=> verdict.score < Threshold

C33_Witness ==
    /\ sample.called
    /\ ~sample.raised
    /\ sample.raw = Threshold
    /\ verdict.sentiment = "positive"

\* C34: a worker that holds a message or is inside process_message has
\* connected to the store and to the broker, its channel has declared the
\* exchange, the main queue, the binding and the dead-letter queue and has
\* prefetch 1, its counters were set, and it is in start_consuming; the
\* counters are zero when the first message arrives.
C34_ConsumesAfterSetup ==
    \A w \in Workers :
        (unacked[w] # <<>> \/ pc[w] # "idle" \/ cur[w] # NoMsg) =>
            /\ setup[w].pc = "consuming"
            /\ setup[w].db = "connected"
            /\ chanOpen[w]
            /\ setup[w].declared = DeclareSteps
            /\ topology = Declared(WorkerTopology)
            /\ setup[w].prefetch = 1
            /\ metrics[w] = ZeroMetrics
            /\ report[w] # NoReport

C34_Witness ==
    \E w, v \in Workers :
        /\ pc[w] = "parse"
        /\ setup[w].attempt > 0
        /\ setup[v].pc \in {"store", "connect"}
        /\ queue # <<>>

\* C35: when a publish_message call is over, returned or raised, the
\* connection it opened is closed, and it has none only when every
\* connection attempt failed; a connection is open only while the call
\* declares or publishes.
C35_ConnectionClosed ==
    \A j \in JobIds :
        LET c == call[j] IN
        /\ c.pc \in {"returned", "raised"} => c.conn \in {"closed", "none"}
        /\ c.pc = "returned" => c.conn = "closed"
        /\ c.conn = "open" <=> c.pc \in DeclareSteps \cup {"publish"}
        /\ (c.pc = "raised" /\ c.conn = "none") => c.attempt + 1 = producer_max_retries

C35_Witness ==
    \E j, k \in JobIds :
        /\ call[j].pc = "raised"
        /\ call[j].conn = "closed"
        /\ call[j].attempt = 1
        /\ call[k].pc = "raised"
        /\ call[k].conn = "none"

\* C36: when the ack or nack of a handler raises on a channel the broker
\* has closed, the worker process ends; a worker that has ended has no
\* connection, holds nothing and never runs again; and at the moment a
\* worker's connection goes, everything it held unacknowledged is back at
\* the head of the main queue.
C36_EscapedErrorStopsWorker ==
    [][\A w \in Workers :
        /\ (tally'[w].handled = tally[w].handled + 1 /\ ~chanOpen[w]) => pc'[w] = "down"
        /\ pc'[w] = "down" => ~chanOpen'[w] /\ unacked'[w] = <<>> /\ cur'[w] = NoMsg
        /\ pc[w] = "down" => pc'[w] = "down"
        /\ (chanOpen[w] /\ ~chanOpen'[w]) =>
                /\ queue' = unacked[w] \o queue
                /\ dlq' = dlq]_vars

C36_Witness ==
    \E w, v \in Workers :
        /\ pc[w] = "down"
        /\ tally[w] = [handled |-> 1, nacks |-> 1, dups |-> 0]
        /\ metrics[w].total_processed = 1
        /\ pc[v] = "idle"
        /\ tally[v].dups = 1
        /\ queue = <<>>

\* The envelope of job j is settled: a record of it is stored and the
\* message is acknowledged, in no queue and on no channel.
Settled(j) ==
    /\ HasRecord(store, j)
    /\ ~InQueue(JsonDumps(Envelope(j)))
    /\ ~InDlq(JsonDumps(Envelope(j)))
    /\ \A w \in Workers : Copies(unacked[w], JsonDumps(Envelope(j))) = 0

\* C32: when some worker keeps running with its connection, every
\* published job is eventually settled: stored, acknowledged and out of
\* the main queue.
C32_PublishedJobSettles ==
    (\E w \in Workers : [](Running(w) /\ chanOpen[w])) =>
        \A j \in JobIds : [](j \in published => <>Settled(j))

====
